---- MODULE Spec2Model ----
(***************************************************************************)
(* Model of sentry/lang/native/symbolicator2.py: the retry/poll controller *)
(* of NativeSymbolicationTask, the Payload and Minidump task variants, the *)
(* persisted two-phase pipeline of UnrealSymbolicationTask and the merge   *)
(* of a completed response into the report.                                *)
(*                                                                         *)
(* Conventions.  A Python dict with optional keys is a record over all its *)
(* possible keys; the value "absent" says the key is not in the dict and   *)
(* "null" that it is there with the value None.  Seconds are counted in    *)
(* thousandths.  The name bound by `with self.symbolicator.session() as    *)
(* session` is read as the opened SymbolicatorSession, handles_frame is    *)
(* read as called with the task and the frame, a stacktrace info as the    *)
(* object with the fields stacktrace and container, and get_threads as the *)
(* thread list: the model describes the control and data flow of the file, *)
(* not the name and arity errors that stop the file as written on its      *)
(* first request.                                                          *)
(***************************************************************************)
EXTENDS Integers, Sequences, FiniteSets, TLC

\* ------------------------------------------------------------------ bounds

\* raw frames in the stack trace of a payload report
MaxFrames == 2
\* frames in one stack trace of a service response
MaxComplete == 2
\* custom sources in the option sentry:symbol_sources
MaxSources == 2
\* images in the image list of a service response
MaxImages == 3
\* entries in debug_meta.images of a report whose images are merged
MaxRawImages == 2
\* requests the service accepts while two runs share the cache
MaxRequests == 3

\* ------------------------------------------------------- program constants

MAX_ATTEMPTS == 3

supported_platforms == {"cocoa", "native"}

\* ----------------------------------------------------------------- helpers

SeqsUpTo(S, n) == UNION {[1..k -> S] : k \in 0..n}

\* Python truthiness of an optional value ("false" stands for False)
Truthy(v) == v \notin {"absent", "null", "", "false"}

\* dict.get(key): None when the key is missing
Get(v) == IF v = "absent" THEN "null" ELSE v

\* value is None, or the key is missing (dict.get(p) is None)
IsNone(v) == v \in {"absent", "null"}

\* ------------------------------------------------------------------ frames

FrameKeys == {"data", "instruction_addr", "platform", "package", "symbol",
              "symbol_addr", "function", "filename", "abs_path", "lineno"}

EmptyFrame == [k \in FrameKeys |-> "absent"]

NativeFrame == [EmptyFrame EXCEPT !.platform = "native", !.instruction_addr = "0x10"]

InheritFrame == [EmptyFrame EXCEPT !.instruction_addr = "0x20", !.function = "raw_fn",
                                   !.filename = "raw.c"]

DoneFrame == [EmptyFrame EXCEPT !.platform = "native", !.instruction_addr = "0x30",
                                !.data = "symbolicated", !.function = "done_fn"]

JsFrame == [EmptyFrame EXCEPT !.platform = "javascript", !.instruction_addr = "0x40"]

NoAddrFrame == [EmptyFrame EXCEPT !.platform = "native", !.function = "no_addr"]

\* frames that fill the stack traces of the initial reports
CoreFrames == {NativeFrame, InheritFrame, DoneFrame}

OtherFrames == {EmptyFrame, JsFrame, NoAddrFrame}

handles_frame(self_data, frame) ==
    IF frame = EmptyFrame THEN FALSE
    ELSE IF ~IsNone(frame.data) THEN FALSE
    ELSE LET platform == IF Truthy(frame.platform) THEN frame.platform
                         ELSE self_data.platform
         IN  platform \in supported_platforms /\ frame.instruction_addr # "absent"

\* posixpath.basename on the paths the service frames carry
basename(p) == CASE p = "/src/lib/a.c" -> "a.c"
                 [] p = "/usr/lib/libfoo.so" -> "libfoo.so"
                 [] OTHER -> p

\* a frame of a service response
CFrame(i) == [original_index |-> i, status |-> "symbolicated", instruction_addr |-> "0x10",
              package |-> "/usr/lib/libfoo.so", symbol |-> "_fn", sym_addr |-> "0x8",
              function |-> "fn", filename |-> "a.c", abs_path |-> "/src/lib/a.c",
              lineno |-> "12"]

\* the service knows the path but not the file name, and nothing else
CFramePath(i) == [CFrame(i) EXCEPT !.package = "absent", !.symbol = "null",
                                   !.sym_addr = "absent", !.function = "null",
                                   !.filename = "absent", !.lineno = "absent"]

\* the service could not symbolicate the frame
CFrameMissing(i) == [CFrame(i) EXCEPT !.status = "missing", !.package = "absent",
                                      !.symbol = "absent", !.sym_addr = "absent",
                                      !.function = "absent", !.filename = "absent",
                                      !.abs_path = "absent", !.lineno = "absent"]

map_frame(frame) ==
    LET f0 == [k \in FrameKeys |->
                 CASE k = "data" -> frame.status
                   [] k = "instruction_addr" -> frame.instruction_addr
                   [] k = "platform" -> "absent"
                   [] k = "package" -> Get(frame.package)
                   [] k = "symbol" -> Get(frame.symbol)
                   [] k = "symbol_addr" -> Get(frame.sym_addr)
                   [] k = "function" -> Get(frame.function)
                   [] k = "filename" -> Get(frame.filename)
                   [] k = "abs_path" -> Get(frame.abs_path)
                   [] k = "lineno" -> Get(frame.lineno)]
        f1 == IF Truthy(f0.abs_path) /\ ~Truthy(f0.filename)
              THEN [f0 EXCEPT !.filename = basename(f0.abs_path)]
              ELSE f0
    IN  \* the final comprehension tests the key, never None, so every key stays
        f1

\* dict(raw_frame) updated with the mapped frame
merge_frame(raw_frame, mapped) ==
    [k \in FrameKeys |-> IF mapped[k] # "absent" THEN mapped[k] ELSE raw_frame[k]]

\* ------------------------------------------------------------------ images

ImageKeys == {"code_file", "debug_id", "arch"}

EmptyImage == [k \in ImageKeys |-> "absent"]

\* a None entry of debug_meta.images
NoneImage == [k \in ImageKeys |-> "none-entry"]

RawImage == [EmptyImage EXCEPT !.code_file = "/usr/lib/libfoo.so", !.arch = "x86"]

\* an image of a service response: the image fields and the two status fields
CImage(code_file, debug_status, unwind_status) ==
    [code_file |-> code_file, debug_id |-> "id-1", arch |-> "unknown",
     debug_status |-> debug_status, unwind_status |-> unwind_status]

is_known_third_party(package) == package = "/app/Frameworks/Third.framework/Third"

is_optional_package(package) == package = "/app/Frameworks/libswiftCore.dylib"

image_name(code_file) ==
    CASE code_file = "/usr/lib/libfoo.so" -> "libfoo.so"
      [] code_file = "/app/Frameworks/Third.framework/Third" -> "Third"
      [] code_file = "/app/Frameworks/libswiftCore.dylib" -> "libswiftCore.dylib"
      [] OTHER -> code_file

\* add_error: None-valued fields are dropped, the record is appended
add_error(errors, ty, image) ==
    LET drop(v) == IF IsNone(v) THEN "absent" ELSE v
    IN  Append(errors, [ty |-> ty,
                        image_arch |-> drop(image.arch),
                        image_path |-> drop(image.code_file),
                        image_name |-> drop(IF IsNone(image.code_file) THEN "null"
                                            ELSE image_name(image.code_file)),
                        image_uuid |-> drop(image.debug_id)])

\* apply_image_status that reports a known third-party binary as optional
apply_image_status_third_party_optional(errors, status, image) ==
    IF status \in {"found", "unused"} THEN errors
    ELSE IF status = "missing" THEN
        LET package == Get(image.code_file)
        IN  IF ~Truthy(package) THEN errors
            ELSE IF is_known_third_party(package) \/ is_optional_package(package)
                 THEN add_error(errors, "native_missing_optionally_bundled_dsym", image)
                 ELSE add_error(errors, "native_missing_dsym", image)
    ELSE IF status = "malformed" THEN add_error(errors, "native_bad_dsym", image)
    ELSE IF status = "too_large" THEN add_error(errors, "too_large", image)
    ELSE IF status = "fetching_failed" THEN add_error(errors, "fetch_generic_error", image)
    ELSE IF status = "other" THEN add_error(errors, "unknown_error", image)
    ELSE errors

\* _apply_image_status: the errors list after one status of one image
apply_image_status(errors, status, image) ==
    IF status \in {"found", "unused"} THEN errors
    ELSE IF status = "missing" THEN
        LET package == Get(image.code_file)
        IN  IF ~Truthy(package) \/ is_known_third_party(package) THEN errors
            ELSE IF is_optional_package(package)
                 THEN add_error(errors, "native_missing_optionally_bundled_dsym", image)
                 ELSE add_error(errors, "native_missing_dsym", image)
    ELSE IF status = "malformed" THEN add_error(errors, "native_bad_dsym", image)
    ELSE IF status = "too_large" THEN add_error(errors, "too_large", image)
    ELSE IF status = "fetching_failed" THEN add_error(errors, "fetch_generic_error", image)
    ELSE IF status = "other" THEN add_error(errors, "unknown_error", image)
    ELSE errors

\* image_statuses that keeps one status per status field, equal or not
image_statuses_per_field(complete_image) ==
    SelectSeq(<<complete_image.debug_status, complete_image.unwind_status>>,
              LAMBDA v : v # "absent")

\* the distinct statuses of a service image, debug_status first
image_statuses(complete_image) ==
    LET present == SelectSeq(<<complete_image.debug_status, complete_image.unwind_status>>,
                             LAMBDA v : v # "absent")
    IN  IF Len(present) = 2 /\ present[1] = present[2] THEN <<present[1]>> ELSE present

\* the loop body of _apply_images for one service image: the raw image after
\* the field writes, and whether a field was written
merge_image(raw_image, complete_image) ==
    LET written(k) == ~(IsNone(complete_image[k])
                        \/ (k = "arch" /\ complete_image[k] = "unknown"))
    IN  [image |-> [k \in ImageKeys |-> IF written(k) THEN complete_image[k]
                                        ELSE raw_image[k]],
         changed |-> \E k \in ImageKeys : written(k)]

RECURSIVE apply_statuses(_, _, _)
apply_statuses(errors, statuses, image) ==
    IF statuses = <<>> THEN errors
    ELSE apply_statuses(apply_image_status(errors, Head(statuses), image),
                        Tail(statuses), image)

\* get_path(data, 'debug_meta', 'images', index, default={}): the entry of the
\* list, or a new empty dict when the index is past the end or the entry is None
get_path_image(images, index) ==
    IF index < Len(images) /\ images[index + 1] # NoneImage
    THEN [found |-> TRUE, value |-> images[index + 1]]
    ELSE [found |-> FALSE, value |-> EmptyImage]

\* apply_images_from that appends the merged image whenever the list had no
\* dict at the index
RECURSIVE apply_images_from_always_append(_, _, _)
apply_images_from_always_append(st, complete_images, index) ==
    IF index >= Len(complete_images) \/ st.error # "none" THEN st
    ELSE
        LET complete_image == complete_images[index + 1]
            got == get_path_image(st.images, index)
            m == merge_image(got.value, complete_image)
            errors == apply_statuses(st.errors, image_statuses(complete_image), m.image)
            written == IF got.found THEN [st.images EXCEPT ![index + 1] = m.image]
                       ELSE Append(st.images, m.image)
            changed == st.changed \/ m.changed \/ Len(errors) > Len(st.errors)
        IN  apply_images_from_always_append(
              [st EXCEPT !.images = written, !.errors = errors, !.changed = changed],
              complete_images, index + 1)

\* _apply_images from service image `index` (0-based) on; st is
\* [images, errors, changed, error]
RECURSIVE apply_images_from(_, _, _)
apply_images_from(st, complete_images, index) ==
    IF index >= Len(complete_images) \/ st.error # "none" THEN st
    ELSE
        LET complete_image == complete_images[index + 1]
            got == get_path_image(st.images, index)
            inList == got.found
            raw_image == got.value
            m == merge_image(raw_image, complete_image)
            errors == apply_statuses(st.errors, image_statuses(complete_image), m.image)
            written == IF inList THEN [st.images EXCEPT ![index + 1] = m.image]
                       ELSE st.images
            changed == st.changed \/ m.changed \/ Len(errors) > Len(st.errors)
        IN  IF Len(written) < index
            THEN [st EXCEPT !.images = written, !.errors = errors,
                            !.changed = changed, !.error = "AssertionError"]
            ELSE apply_images_from(
                   [st EXCEPT !.images = IF Len(written) = index
                                         THEN Append(written, m.image) ELSE written,
                              !.errors = errors, !.changed = changed],
                   complete_images, index + 1)

\* ------------------------------------------------------------------ report

NoImages == [present |-> FALSE, list |-> <<>>]

BaseData == [platform |-> "native", level |-> "absent",
             os_name |-> "absent", os_version |-> "absent", os_build |-> "absent",
             device_arch |-> "absent",
             images |-> NoImages,
             frames |-> <<>>,
             raw_stacktrace |-> [present |-> FALSE, frames |-> <<>>],
             threads |-> [present |-> FALSE, values |-> <<>>],
             portable_call_stack |-> [present |-> FALSE, frames |-> <<>>],
             errors |-> <<>>]

ImageStates == {NoImages, [present |-> TRUE, list |-> <<>>],
                [present |-> TRUE, list |-> <<RawImage>>]}

FrameLists == SeqsUpTo(CoreFrames, MaxFrames) \cup {<<f>> : f \in OtherFrames}

PayloadReports == {[BaseData EXCEPT !.platform = p, !.frames = fs, !.images = im] :
                     p \in {"native", "javascript"}, fs \in FrameLists, im \in ImageStates}

\* a frame parse_portable_callstack resolves against the image list
PcsFrame == [EmptyFrame EXCEPT !.instruction_addr = "0x50", !.package = "UE4Game"]

PortableCallStacks == {[present |-> FALSE, frames |-> <<>>],
                       [present |-> TRUE, frames |-> <<>>],
                       [present |-> TRUE, frames |-> <<PcsFrame>>]}

UnrealReports == {[BaseData EXCEPT !.portable_call_stack = pcs, !.images = im] :
                    pcs \in PortableCallStacks, im \in ImageStates}

MinidumpReports == {[BaseData EXCEPT !.level = l, !.images = im] :
                      l \in {"absent", "error"}, im \in ImageStates}

\* --------------------------------------------------------------- responses

NoSystemInfo == [os_name |-> "absent", os_version |-> "absent", os_build |-> "absent",
                 cpu_arch |-> "absent"]

SystemInfo == [os_name |-> "Linux", os_version |-> "5.4", os_build |-> "null",
               cpu_arch |-> "x86_64"]

\* {'status': 'completed'} and nothing else
BareCompleted == [status |-> "completed", request_id |-> "absent", retry_after |-> 0,
                  crashed |-> "absent", system_info |-> NoSystemInfo,
                  images |-> <<>>, stacktraces |-> <<>>]

CFrameLists == SeqsUpTo({CFrame(i) : i \in 0..(MaxFrames - 1)}, MaxComplete)
               \cup {<<CFramePath(0)>>, <<CFrameMissing(0)>>}

CStacktrace(frames) == [frames |-> frames, thread_id |-> "1", is_requesting |-> "true",
                        registers |-> "absent"]

CImageLists == {<<>>, <<CImage("/usr/lib/libfoo.so", "missing", "found")>>}

CompletedResponses ==
    {BareCompleted}
    \cup {[BareCompleted EXCEPT !.stacktraces =
              <<[CStacktrace(<<CFrame(0)>>) EXCEPT !.is_requesting = "false"]>>]}
    \cup {[BareCompleted EXCEPT !.stacktraces = <<CStacktrace(fs)>>] : fs \in CFrameLists}
    \cup {[BareCompleted EXCEPT !.crashed = "true", !.system_info = SystemInfo,
                                !.images = il, !.stacktraces = <<CStacktrace(<<CFrame(0)>>)>>] :
            il \in CImageLists}

PendingResponses == {[BareCompleted EXCEPT !.status = "pending", !.request_id = "r1",
                                           !.retry_after = 1],
                     [BareCompleted EXCEPT !.status = "pending", !.request_id = "r2",
                                           !.retry_after = 30]}

OtherResponses == {[BareCompleted EXCEPT !.status = "failed"]}

Responses == CompletedResponses \cup PendingResponses \cup OtherResponses

\* what one request to the service can come to: a JSON body, 404, 503, another
\* HTTP error status, or a RequestException that carries no response
AnswerKinds == {"response", "not_found", "http_503", "http_error", "no_response"}

\* ------------------------------------------------------------------- merge

\* setdefault_path(data, field, value=value): set if there is no value yet
setdefault_path(d, field, value) ==
    [data |-> IF IsNone(d[field]) THEN [d EXCEPT ![field] = value] ELSE d,
     set |-> IsNone(d[field])]

\* NativeSymbolicationTask.setdefault on a scalar field; st is [data, changed]
setdefault(st, field, value) ==
    IF ~IsNone(value)
    THEN LET r == setdefault_path(st.data, field, value)
         IN  [data |-> r.data, changed |-> st.changed \/ r.set]
    ELSE st

\* setdefault(['debug_meta', 'images'], [])
setdefault_images(st) ==
    IF st.data.images.present THEN st
    ELSE [data |-> [st.data EXCEPT !.images = [present |-> TRUE, list |-> <<>>]],
          changed |-> TRUE]

apply_system_info(st, system_info) ==
    LET s1 == setdefault(st, "os_name", Get(system_info.os_name))
        s2 == setdefault(s1, "os_version", Get(system_info.os_version))
        s3 == setdefault(s2, "os_build", Get(system_info.os_build))
    IN  setdefault(s3, "device_arch", Get(system_info.cpu_arch))

\* _apply_images; the result is [data, changed, error]
apply_images(st, complete_images) ==
    LET s1 == setdefault_images(st)
        r == apply_images_from([images |-> s1.data.images.list, errors |-> s1.data.errors,
                                changed |-> s1.changed, error |-> "none"],
                               complete_images, 0)
    IN  [data |-> [s1.data EXCEPT !.images.list = r.images, !.errors = r.errors],
         changed |-> r.changed, error |-> r.error]

\* the stack traces of the report that hold a frame of a supported platform
stacktrace_infos(d) ==
    IF \E i \in 1..Len(d.frames) :
          (IF Truthy(d.frames[i].platform) THEN d.frames[i].platform ELSE d.platform)
             \in supported_platforms
    THEN <<d.frames>> ELSE <<>>

\* complete_frames_by_idx that keeps one frame per index
complete_frames_by_idx_first(complete_frames, idx) ==
    LET all == SelectSeq(complete_frames, LAMBDA f : f.original_index = idx)
    IN  IF all = <<>> THEN <<>> ELSE <<all[1]>>

\* the service frames that carry original_index idx, in the order of the response
complete_frames_by_idx(complete_frames, idx) ==
    SelectSeq(complete_frames, LAMBDA f : f.original_index = idx)

\* the loop of PayloadSymbolicationTask.apply_stacktraces over the raw frames
\* from position i on; acc is [new_frames, native_frames_idx, changed, error]
RECURSIVE replace_frames(_, _, _, _, _)
replace_frames(d, raw_frames, complete_frames, i, acc) ==
    IF i > Len(raw_frames) \/ acc.error # "none" THEN acc
    ELSE IF handles_frame(d, raw_frames[i])
    THEN LET cs == complete_frames_by_idx(complete_frames, acc.native_frames_idx)
             merged == [j \in 1..Len(cs) |-> merge_frame(raw_frames[i], map_frame(cs[j]))]
         IN  IF cs = <<>>
             THEN [acc EXCEPT !.error = "KeyError"]
             ELSE replace_frames(d, raw_frames, complete_frames, i + 1,
                    [acc EXCEPT !.new_frames = acc.new_frames \o merged,
                                !.native_frames_idx = acc.native_frames_idx + 1,
                                !.changed = TRUE])
    ELSE replace_frames(d, raw_frames, complete_frames, i + 1,
           [acc EXCEPT !.new_frames = Append(acc.new_frames, raw_frames[i])])

\* PayloadSymbolicationTask.apply_stacktraces; st is [data, changed], the
\* result [data, changed, error]
payload_apply_stacktraces(st, stacktraces) ==
    IF stacktrace_infos(st.data) = <<>> \/ stacktraces = <<>>
    THEN [data |-> st.data, changed |-> st.changed, error |-> "none"]
    ELSE LET r == replace_frames(st.data, st.data.frames, stacktraces[1].frames, 1,
                    [new_frames |-> <<>>, native_frames_idx |-> 0,
                     changed |-> st.changed, error |-> "none"])
         IN  IF r.error # "none"
             THEN [data |-> st.data, changed |-> r.changed, error |-> r.error]
             ELSE [data |-> [st.data EXCEPT
                               !.raw_stacktrace =
                                   IF r.native_frames_idx > 0
                                   THEN [present |-> TRUE, frames |-> st.data.frames]
                                   ELSE @,
                               !.frames = r.new_frames],
                   changed |-> r.changed, error |-> "none"]

\* MinidumpSymbolicationTask.apply_stacktraces
minidump_apply_stacktraces(st, stacktraces) ==
    LET threads == [t \in 1..Len(stacktraces) |->
                      [id |-> Get(stacktraces[t].thread_id),
                       crashed |-> Get(stacktraces[t].is_requesting),
                       frames |-> [j \in 1..Len(stacktraces[t].frames) |->
                                     map_frame(stacktraces[t].frames[j])],
                       registers |-> Get(stacktraces[t].registers)]]
    IN  [data |-> [st.data EXCEPT !.threads = [present |-> TRUE, values |-> threads]],
         changed |-> st.changed, error |-> "none"]

\* apply_response of the task class cls; the result is [data, changed, error]
apply_response(cls, d, ch, resp) ==
    LET s0 == [data |-> d, changed |-> ch]
        s1 == IF ~IsNone(resp.crashed)
              THEN setdefault(s0, "level", IF resp.crashed = "true" THEN "fatal" ELSE "info")
              ELSE s0
        s2 == apply_system_info(s1, resp.system_info)
        s3 == apply_images(s2, resp.images)
    IN  IF s3.error # "none" THEN s3
        ELSE IF cls = "Payload"
             THEN payload_apply_stacktraces([data |-> s3.data, changed |-> s3.changed],
                                            resp.stacktraces)
             ELSE minidump_apply_stacktraces([data |-> s3.data, changed |-> s3.changed],
                                             resp.stacktraces)

\* ----------------------------------------------------------------- sources

\* source ids, as the sequences of their characters
IdCustom == <<"c", "u", "s", "t", "o", "m">>

IdBucket == <<"s", "3">>

IdSentryColon == <<"s", "e", "n", "t", "r", "y", ":", "x">>

IdSentryWord == <<"s", "e", "n", "t", "r", "y", "f", "o", "o">>

SourceIds == {IdCustom, IdBucket, IdSentryColon, IdSentryWord}

\* str.startswith
startswith(s, prefix) ==
    Len(s) >= Len(prefix) /\ SubSeq(s, 1, Len(prefix)) = prefix

\* a custom source that passes SOURCES_SCHEMA
S3Source(id) == [type |-> "s3", id |-> id]

\* get_internal_source(project)
get_internal_source ==
    [type |-> "sentry", id |-> <<"s", "e", "n", "t", "r", "y", ":", "p", "r", "o", "j",
                                 "e", "c", "t">>]

\* BUILTIN_SOURCES, by key
BUILTIN_SOURCES ==
    [microsoft |-> [type |-> "http", id |-> <<"s", "e", "n", "t", "r", "y", ":", "m", "i",
                                               "c", "r", "o", "s", "o", "f", "t">>]]

\* the option sentry:symbol_sources: not set, the empty string, a string that
\* is not JSON, JSON that fails SOURCES_SCHEMA, or a list of valid sources
SourceConfigs ==
    {[form |-> f, ids |-> <<>>] : f \in {"none", "empty", "bad_json", "bad_schema"}}
    \cup {[form |-> "list", ids |-> ids] : ids \in SeqsUpTo(SourceIds, MaxSources)}

\* the option sentry:builtin_symbol_sources: not set, or a list of keys
BuiltinOptions == {[set |-> FALSE, keys |-> {}], [set |-> TRUE, keys |-> {}],
                   [set |-> TRUE, keys |-> {"microsoft"}],
                   [set |-> TRUE, keys |-> {"microsoft", "unknown"}]}

Projects == {[symbol_sources |-> c, builtin_symbol_sources |-> b] :
               c \in SourceConfigs, b \in BuiltinOptions}

NoProject == [symbol_sources |-> [form |-> "none", ids |-> <<>>],
              builtin_symbol_sources |-> [set |-> FALSE, keys |-> {}]]

\* the loop of parse_sources over the sources from position i on: the error
\* raised, if any
RECURSIVE check_ids(_, _, _)
check_ids(ids_list, i, ids) ==
    IF i > Len(ids_list) THEN FALSE
    ELSE IF startswith(ids_list[i], <<"s", "e", "n", "t", "r", "y">>) THEN TRUE
    ELSE IF ids_list[i] \in ids THEN TRUE
    ELSE check_ids(ids_list, i + 1, ids \cup {ids_list[i]})

\* parse_sources without the test for a duplicate id
parse_sources_no_duplicate_test(config) ==
    IF config.form \in {"none", "empty"} THEN [error |-> FALSE, sources |-> <<>>]
    ELSE IF config.form \in {"bad_json", "bad_schema"}
    THEN [error |-> TRUE, sources |-> <<>>]
    ELSE IF \E i \in 1..Len(config.ids) :
               startswith(config.ids[i], <<"s", "e", "n", "t", "r", "y">>)
    THEN [error |-> TRUE, sources |-> <<>>]
    ELSE [error |-> FALSE,
          sources |-> [i \in 1..Len(config.ids) |-> S3Source(config.ids[i])]]

\* parse_sources: error says InvalidSourcesError was raised
parse_sources(config) ==
    IF config.form \in {"none", "empty"} THEN [error |-> FALSE, sources |-> <<>>]
    ELSE IF config.form \in {"bad_json", "bad_schema"}
    THEN [error |-> TRUE, sources |-> <<>>]
    ELSE IF check_ids(config.ids, 1, {}) THEN [error |-> TRUE, sources |-> <<>>]
    ELSE [error |-> FALSE,
          sources |-> [i \in 1..Len(config.ids) |-> S3Source(config.ids[i])]]

\* get_sources_for_project
get_sources_for_project(p) ==
    LET parsed == parse_sources(p.symbol_sources)
        custom_sources == IF p.symbol_sources.form \in {"none", "empty"} \/ parsed.error
                          THEN <<>> ELSE parsed.sources
        builtin_sources == IF "microsoft" \in p.builtin_symbol_sources.keys
                           THEN <<BUILTIN_SOURCES.microsoft>> ELSE <<>>
    IN  <<get_internal_source>> \o custom_sources \o builtin_sources

\* ------------------------------------------------------------------- state

VARIABLES
    kind,             \* class of the task symbolicate_native_event created
    task,             \* class of the native task that is running (its cache key)
    data,             \* the report
    tmp,              \* unreal_tmp_event of _apply_portable_callstack
    changed,          \* the native task's changed
    unreal_changed,   \* the Unreal task's changed
    default_cache,    \* task handle per task class, and the Unreal pipeline state
    minidump,         \* the attachment store holds the report's minidump
    pc,               \* where the run stands
    session,          \* the SymbolicatorSession is open
    task_id,          \* _do_symbolicate's task_id
    wait_timeout,     \* symbolicate's wait_timeout, in thousandths of a second
    current_attempt,  \* symbolicate's current_attempt
    outcome,          \* how the last run ended
    retry_after,      \* retry_after of the RetrySymbolication raised
    state,            \* UnrealSymbolicationTask.symbolicate's state (0 is None)
    original_state,   \* its original_state
    new_data,         \* e.new_data of the RetrySymbolication that left the pipeline
    attempts,         \* calls of _do_symbolicate in this run
    sleeps,           \* the waits slept in this run, in order
    polled,           \* this attempt called query_task
    built,            \* this attempt called call_symbolicator
    submitted,        \* this attempt sent a request through call_symbolicator
    order,            \* the calls of this attempt, in order
    not_found,        \* this attempt's query_task returned None
    last,             \* what the last call of this run came to, and the response
    calls,            \* requests sent to the service in this run
    exhausted,        \* the run ended by exceeding MAX_ATTEMPTS
    data0,            \* the report when the run started
    handle0,          \* the task handle persisted when the run started
    phase,            \* the pipeline phase that is running or ran last
    minidump_done,    \* _apply_minidump has returned in some invocation
    minidump_again,   \* _apply_minidump was entered after it had returned
    persisted_max,    \* the latest pipeline phase that was ever persisted
    history,          \* what the runs of this native task did so far
    project,          \* the project options get_sources_for_project reads
    sources,          \* the source list get_sources_for_project returned
    runs,             \* the runs that share default_cache, each with its own report
    handles,          \* default_cache, by the cache key of the task
    issued            \* requests the service has accepted from these runs

\* the state of one task and of the cache it uses
TaskVars == <<kind, task, data, tmp, changed, unreal_changed, default_cache, minidump, pc,
              session, task_id, wait_timeout, current_attempt, outcome, retry_after, state,
              original_state, new_data, attempts, sleeps, polled, built, submitted, order,
              not_found, last, calls, exhausted, data0, handle0, phase, minidump_done,
              minidump_again, persisted_max, history>>

\* the state of create_symbolicator
SourceVars == <<project, sources>>

\* the state of the runs that share the cache
ConcVars == <<runs, handles, issued>>

vars == <<TaskVars, SourceVars, ConcVars>>

PROCESS_MINIDUMP == 1

PROCESS_PORTABLE_CALLSTACK == 2

\* next_wait that doubles the wait
next_wait_doubling(w) == 2 * w + 500

\* wait_timeout = 1.6 * wait_timeout + 0.5
next_wait(w) == (16 * w) \div 10 + 500

\* the test that lets the loop of symbolicate try again
may_retry(attempt) == attempt <= MAX_ATTEMPTS

\* _cache_key: one key per task class, event and project
cache_key(cls) == cls

\* the data of the running native task
TaskData == IF kind = "Unreal" /\ task = "Payload" THEN tmp ELSE data

\* no request made yet
NoCall == [answer |-> "none", response |-> BareCompleted]

\* the part of the state a step of the native controller reads and writes
Cur == [pc |-> pc, outcome |-> outcome, retry_after |-> retry_after,
        cache |-> default_cache, data |-> TaskData, changed |-> changed,
        wait_timeout |-> wait_timeout, current_attempt |-> current_attempt,
        sleeps |-> sleeps, exhausted |-> exhausted, session |-> session]

Commit(n) ==
    /\ pc' = n.pc
    /\ outcome' = n.outcome
    /\ retry_after' = n.retry_after
    /\ default_cache' = n.cache
    /\ IF kind = "Unreal" /\ task = "Payload"
       THEN tmp' = n.data /\ UNCHANGED data
       ELSE data' = n.data /\ UNCHANGED tmp
    /\ changed' = n.changed
    /\ wait_timeout' = n.wait_timeout
    /\ current_attempt' = n.current_attempt
    /\ sleeps' = n.sleeps
    /\ exhausted' = n.exhausted
    /\ session' = n.session

\* leave that closes the session only on a normal return
leave_open_on_error(c, how, after) ==
    [c EXCEPT !.outcome = how, !.retry_after = after,
              !.session = IF how = "returned" THEN FALSE ELSE c.session,
              !.pc = IF kind = "Unreal" THEN "phase_done" ELSE "idle"]

\* symbolicate is left: the with block closes the session
leave(c, how, after) ==
    [c EXCEPT !.outcome = how, !.retry_after = after, !.session = FALSE,
              !.pc = IF kind = "Unreal" THEN "phase_done" ELSE "idle"]

\* the except clause of symbolicate
transient_failure(c) ==
    LET attempt == c.current_attempt + 1
    IN  IF may_retry(attempt)
        THEN [c EXCEPT !.current_attempt = attempt,
                       !.wait_timeout = next_wait(c.wait_timeout),
                       !.sleeps = Append(c.sleeps, next_wait(c.wait_timeout)),
                       !.pc = "do_symbolicate"]
        ELSE leave([c EXCEPT !.current_attempt = attempt, !.exhausted = TRUE,
                             !.cache[cache_key(task)] = "none"],
                   "returned", 0)

\* request_failed without the 503 case
request_failed_no_503(c, answer) ==
    CASE answer = "http_503" -> transient_failure(c)
      [] answer = "http_error" -> transient_failure(c)
      [] answer = "no_response" -> leave(c, "AttributeError", 0)

\* the except clause of _do_symbolicate, by what the request came to
request_failed(c, answer) ==
    CASE answer = "http_503" -> leave(c, "RetrySymbolication", 10)
      [] answer = "http_error" -> transient_failure(c)
      [] answer = "no_response" -> leave(c, "AttributeError", 0)

\* got_response with a pending answer handled like a transport failure
got_response_pending_fails(c, response) ==
    IF response.status = "pending"
    THEN transient_failure(c)
    ELSE LET d == [c EXCEPT !.cache[cache_key(task)] = "none"]
         IN  IF response.status # "completed"
             THEN leave(d, "SymbolicationError", 0)
             ELSE LET r == apply_response(task, c.data, c.changed, response)
                  IN  leave([d EXCEPT !.data = r.data, !.changed = r.changed],
                            IF r.error # "none" THEN r.error ELSE "returned", 0)

\* got_response that raises RetrySymbolication on pending without saving the
\* task handle
got_response_pending_unsaved(c, response) ==
    IF response.status = "pending"
    THEN leave(c, "RetrySymbolication", response.retry_after)
    ELSE LET d == [c EXCEPT !.cache[cache_key(task)] = "none"]
         IN  IF response.status # "completed"
             THEN leave(d, "SymbolicationError", 0)
             ELSE LET r == apply_response(task, c.data, c.changed, response)
                  IN  leave([d EXCEPT !.data = r.data, !.changed = r.changed],
                            IF r.error # "none" THEN r.error ELSE "returned", 0)

\* _do_symbolicate from the status test on, then apply_response and the
\* clean-up of symbolicate
got_response(c, response) ==
    IF response.status = "pending"
    THEN leave([c EXCEPT !.cache[cache_key(task)] = response.request_id],
               "RetrySymbolication", response.retry_after)
    ELSE LET d == [c EXCEPT !.cache[cache_key(task)] = "none"]
         IN  IF response.status # "completed"
             THEN leave(d, "SymbolicationError", 0)
             ELSE LET r == apply_response(task, c.data, c.changed, response)
                  IN  leave([d EXCEPT !.data = r.data, !.changed = r.changed],
                            IF r.error # "none" THEN r.error ELSE "returned", 0)

\* the handled frames call_symbolicator of the Payload task would send
handled_stacktraces(d) ==
    [t \in 1..Len(stacktrace_infos(d)) |->
       SelectSeq(stacktrace_infos(d)[t], LAMBDA f : handles_frame(d, f))]

\* call_symbolicator sends a request (Payload: some handled frame; Minidump:
\* the minidump is there)
sends_request(cls, d, has_minidump) ==
    IF cls = "Payload"
    THEN \E t \in 1..Len(handled_stacktraces(d)) : handled_stacktraces(d)[t] # <<>>
    ELSE has_minidump

UnrealVars == <<state, original_state, unreal_changed, new_data, phase, minidump_done,
                minidump_again, persisted_max>>

\* no request submitted, no response applied, no call that failed
NoHistory == [submits |-> 0, applied |-> 0, failed |-> FALSE]

\* one more, up to "more than one"
one_more(n) == IF n > 1 THEN n ELSE n + 1

\* the history after a call of the session: sent is a request submitted by
\* call_symbolicator; a call fails when it raised or a poll was answered 404;
\* a completed response is applied
recorded(h, sent, answer, response) ==
    [submits |-> IF sent THEN one_more(h.submits) ELSE h.submits,
     applied |-> IF answer = "response" /\ response.status = "completed"
                 THEN one_more(h.applied) ELSE h.applied,
     failed |-> h.failed \/ answer # "response"]

\* ------------------------------------------------- the native controller

\* NativeSymbolicationTask.symbolicate is entered
begin_run(cls) ==
    /\ task' = cls
    /\ changed' = FALSE
    /\ session' = TRUE
    /\ wait_timeout' = 0
    /\ current_attempt' = 0
    /\ task_id' = "none"
    /\ attempts' = 0
    /\ sleeps' = <<>>
    /\ polled' = FALSE
    /\ built' = FALSE
    /\ submitted' = FALSE
    /\ order' = <<>>
    /\ not_found' = FALSE
    /\ last' = NoCall
    /\ calls' = 0
    /\ exhausted' = FALSE
    /\ handle0' = default_cache[cache_key(cls)]
    /\ history' = IF cls = task THEN history ELSE NoHistory
    /\ outcome' = "none"
    /\ retry_after' = 0
    /\ pc' = "do_symbolicate"

\* the scheduler runs a Payload or Minidump task: the first time, or again
\* after RetrySymbolication
symbolicate ==
    /\ pc = "idle"
    /\ kind \in {"Payload", "Minidump"}
    /\ outcome \in {"none", "RetrySymbolication"}
    /\ begin_run(kind)
    /\ data0' = data
    /\ UNCHANGED <<kind, data, tmp, default_cache, minidump>>
    /\ UNCHANGED UnrealVars
    /\ UNCHANGED <<SourceVars, ConcVars>>

\* _do_symbolicate reads the persisted task handle
do_symbolicate ==
    /\ pc = "do_symbolicate"
    /\ task_id' = default_cache[cache_key(task)]
    /\ attempts' = attempts + 1
    /\ polled' = FALSE
    /\ built' = FALSE
    /\ submitted' = FALSE
    /\ order' = <<>>
    /\ not_found' = FALSE
    /\ pc' = IF task_id' # "none" THEN "query_task" ELSE "call_symbolicator"
    /\ UNCHANGED <<kind, task, data, tmp, changed, default_cache, minidump, session,
                   wait_timeout, current_attempt, outcome, retry_after, sleeps, calls,
                   exhausted, data0, handle0, last, history>>
    /\ UNCHANGED UnrealVars
    /\ UNCHANGED <<SourceVars, ConcVars>>

\* polled_answer with the 404 of a poll raised like any other HTTP error
polled_answer_404_raises(c, answer, response) ==
    CASE answer = "response" -> got_response(c, response)
      [] answer = "not_found" -> request_failed(c, "http_error")
      [] OTHER -> request_failed(c, answer)

\* what follows the answer to session.query_task(task_id): a 404 is None, and
\* _do_symbolicate goes on to call_symbolicator
polled_answer(c, answer, response) ==
    CASE answer = "not_found" -> [c EXCEPT !.pc = "call_symbolicator"]
      [] answer = "response" -> got_response(c, response)
      [] OTHER -> request_failed(c, answer)

\* session.query_task(task_id) and what follows its answer
query_task ==
    /\ pc = "query_task"
    /\ \E answer \in AnswerKinds, response \in Responses :
         /\ answer = "response" \/ response = BareCompleted
         /\ Commit(polled_answer(Cur, answer, response))
         /\ not_found' = (answer = "not_found")
         /\ last' = [answer |-> answer, response |-> response]
         /\ history' = recorded(history, FALSE, answer, response)
    /\ polled' = TRUE
    /\ order' = Append(order, "poll")
    /\ calls' = calls + 1
    /\ UNCHANGED <<kind, task, minidump, task_id, attempts, built, submitted, data0, handle0>>
    /\ UNCHANGED UnrealVars
    /\ UNCHANGED <<SourceVars, ConcVars>>

\* self.call_symbolicator(session) and what follows its answer
call_symbolicator ==
    /\ pc = "call_symbolicator"
    /\ built' = TRUE
    /\ order' = Append(order, "call")
    /\ IF sends_request(task, TaskData, minidump)
       THEN /\ \E answer \in AnswerKinds \ {"not_found"}, response \in Responses :
                 /\ answer = "response" \/ response = BareCompleted
                 /\ Commit(IF answer = "response" THEN got_response(Cur, response)
                           ELSE request_failed(Cur, answer))
                 /\ last' = [answer |-> answer, response |-> response]
                 /\ history' = recorded(history, TRUE, answer, response)
            /\ submitted' = TRUE
            /\ calls' = calls + 1
       ELSE /\ Commit(IF task = "Payload" THEN got_response(Cur, BareCompleted)
                      ELSE leave(Cur, "SymbolicationError", 0))
            /\ last' = [answer |-> "local", response |-> BareCompleted]
            /\ history' = IF task = "Payload"
                          THEN recorded(history, FALSE, "response", BareCompleted)
                          ELSE history
            /\ UNCHANGED <<submitted, calls>>
    /\ UNCHANGED <<kind, task, minidump, task_id, attempts, polled, not_found, data0,
                   handle0>>
    /\ UNCHANGED UnrealVars
    /\ UNCHANGED <<SourceVars, ConcVars>>

\* the attachment store drops the minidump (its entries expire).  A task reads
\* the attachment once (the property is memoized), so the store only matters
\* between two runs
attachment_expires ==
    /\ minidump
    /\ pc = "idle"
    /\ outcome \in {"none", "RetrySymbolication"}
    /\ minidump' = FALSE
    /\ UNCHANGED <<kind, task, data, tmp, changed, default_cache, pc, session, task_id,
                   wait_timeout, current_attempt, outcome, retry_after, attempts, sleeps,
                   polled, built, submitted, order, not_found, last, calls, exhausted,
                   data0, handle0, history>>
    /\ UNCHANGED UnrealVars
    /\ UNCHANGED <<SourceVars, ConcVars>>

\* ----------------------------------------------------- the Unreal pipeline

\* TRANSITIONS[state][1]: the state that follows a phase
new_state(st) == IF st = PROCESS_MINIDUMP THEN PROCESS_PORTABLE_CALLSTACK ELSE 0

\* resume_state that ignores the persisted state
resume_state_restart(cache) == PROCESS_MINIDUMP

\* the state symbolicate starts from: the persisted one, else PROCESS_MINIDUMP
resume_state(cache) == IF cache.unreal = 0 THEN PROCESS_MINIDUMP ELSE cache.unreal

\* persist_state that only deletes: a state that is not None is never written
persist_state_delete_only(cache, st, original) ==
    IF st # original /\ st = 0 THEN [cache EXCEPT !.unreal = 0] ELSE cache

\* persist_state that also deletes the state when the run did not move it
persist_state_clears_unmoved(cache, st, original) ==
    IF st # original /\ st # 0 THEN [cache EXCEPT !.unreal = st]
    ELSE [cache EXCEPT !.unreal = 0]

\* the finally clause of UnrealSymbolicationTask.symbolicate
persist_state(cache, st, original) ==
    IF st # original
    THEN IF st = 0 THEN [cache EXCEPT !.unreal = 0] ELSE [cache EXCEPT !.unreal = st]
    ELSE cache

\* get_threads: threads.values, else threads, else ()
get_threads(d) ==
    IF d.threads.present /\ d.threads.values # <<>> THEN "values"
    ELSE IF d.threads.present THEN "dict"
    ELSE "tuple"

\* _apply_portable_callstack before it builds the synthetic event: "error",
\* "return" or "task"
portable_callstack_entry(d) ==
    IF get_threads(d) = "dict" THEN "error"
    ELSE IF get_threads(d) = "values"
            /\ \E i \in 1..Len(d.threads.values) : Truthy(d.threads.values[i].crashed)
    THEN "return"
    ELSE IF ~d.portable_call_stack.present THEN "return"
    ELSE IF d.portable_call_stack.frames = <<>> THEN "return"
    ELSE "task"

\* unreal_tmp_event
unreal_tmp_event(d) ==
    [BaseData EXCEPT !.platform = "native",
                     !.images = [present |-> TRUE,
                                 list |-> SelectSeq(d.images.list,
                                                    LAMBDA im : im # NoneImage)],
                     !.frames = d.portable_call_stack.frames]

\* the one crashed thread of unreal_tmp_event
tmp_thread(t) == [id |-> "null", crashed |-> "true", frames |-> t.frames,
                  registers |-> "null"]

NativeLocals == <<task, changed, session, wait_timeout, current_attempt, task_id, attempts,
                  sleeps, polled, built, submitted, order, not_found, last, calls,
                  exhausted, handle0, retry_after, history>>

\* the scheduler runs the Unreal task: the first time, or again after
\* RetrySymbolication
unreal_symbolicate ==
    /\ pc = "idle"
    /\ kind = "Unreal"
    /\ outcome \in {"none", "RetrySymbolication"}
    /\ state' = resume_state(default_cache)
    /\ original_state' = state'
    /\ unreal_changed' = FALSE
    /\ new_data' = [present |-> FALSE, data |-> BaseData]
    /\ outcome' = "none"
    /\ data0' = data
    /\ pc' = "phase"
    /\ UNCHANGED <<kind, data, tmp, default_cache, minidump, phase, minidump_done,
                   minidump_again, persisted_max>>
    /\ UNCHANGED NativeLocals
    /\ UNCHANGED <<SourceVars, ConcVars>>

\* the pipeline is left: the finally clause runs
unreal_leave(st, how) ==
    /\ default_cache' = persist_state(default_cache, st, original_state)
    /\ persisted_max' = IF default_cache'.unreal > persisted_max
                        THEN default_cache'.unreal ELSE persisted_max
    /\ state' = st
    /\ outcome' = how
    /\ pc' = "idle"

\* func() of the loop is called
unreal_phase ==
    /\ pc = "phase"
    /\ phase' = state
    /\ IF state = PROCESS_MINIDUMP
       THEN /\ begin_run("Minidump")
            /\ minidump_again' = (minidump_again \/ minidump_done)
            /\ UNCHANGED <<tmp, default_cache, state, persisted_max>>
       ELSE /\ UNCHANGED minidump_again
            /\ CASE portable_callstack_entry(data) = "task" ->
                      /\ begin_run("Payload")
                      /\ tmp' = unreal_tmp_event(data)
                      /\ UNCHANGED <<default_cache, state, persisted_max>>
                 [] portable_callstack_entry(data) = "return" ->
                      /\ unreal_leave(0, "returned")
                      /\ UNCHANGED tmp
                      /\ UNCHANGED NativeLocals
                 [] OTHER ->
                      /\ unreal_leave(state, "AttributeError")
                      /\ UNCHANGED tmp
                      /\ UNCHANGED NativeLocals
    /\ UNCHANGED <<kind, data, minidump, original_state, unreal_changed, new_data,
                   minidump_done, data0>>
    /\ UNCHANGED <<SourceVars, ConcVars>>

\* the nested task's symbolicate has returned or raised
unreal_phase_done ==
    /\ pc = "phase_done"
    /\ IF outcome = "returned"
       THEN IF state = PROCESS_MINIDUMP
            THEN /\ unreal_changed' = (unreal_changed \/ changed)
                 /\ minidump_done' = TRUE
                 /\ state' = new_state(state)
                 /\ pc' = "phase"
                 /\ UNCHANGED <<data, default_cache, outcome, new_data, persisted_max>>
            ELSE IF get_threads(data) = "values"
                 THEN /\ data' = [data EXCEPT !.threads.values = @ \o <<tmp_thread(tmp)>>]
                      /\ unreal_changed' = TRUE
                      /\ unreal_leave(new_state(state), "returned")
                      /\ UNCHANGED <<minidump_done, new_data>>
                 ELSE /\ unreal_leave(state, "AttributeError")
                      /\ UNCHANGED <<data, unreal_changed, minidump_done, new_data>>
       ELSE /\ new_data' = IF outcome = "RetrySymbolication"
                           THEN [present |-> TRUE, data |-> data] ELSE new_data
            /\ unreal_leave(state, outcome)
            /\ UNCHANGED <<data, unreal_changed, minidump_done>>
    /\ UNCHANGED <<kind, tmp, minidump, original_state, phase, minidump_again, data0>>
    /\ UNCHANGED NativeLocals
    /\ UNCHANGED <<SourceVars, ConcVars>>

\* -------------------------------------------------------------- the system

\* a task as its constructor leaves it, and nothing persisted
NewTask ==
    /\ task = kind
    /\ tmp = BaseData
    /\ changed = FALSE
    /\ unreal_changed = FALSE
    /\ default_cache = [Payload |-> "none", Minidump |-> "none", unreal |-> 0]
    /\ pc = "idle"
    /\ session = FALSE
    /\ task_id = "none"
    /\ wait_timeout = 0
    /\ current_attempt = 0
    /\ outcome = "none"
    /\ retry_after = 0
    /\ state = 0
    /\ original_state = 0
    /\ new_data = [present |-> FALSE, data |-> BaseData]
    /\ attempts = 0
    /\ sleeps = <<>>
    /\ polled = FALSE
    /\ built = FALSE
    /\ submitted = FALSE
    /\ order = <<>>
    /\ calls = 0
    /\ exhausted = FALSE
    /\ data0 = data
    /\ handle0 = "none"
    /\ not_found = FALSE
    /\ last = NoCall
    /\ phase = 0
    /\ minidump_done = FALSE
    /\ minidump_again = FALSE
    /\ persisted_max = 0
    /\ history = NoHistory

\* no run that shares the cache with another
NoRuns ==
    /\ runs = <<>>
    /\ handles = <<>>
    /\ issued = 0

Init ==
    /\ \/ kind = "Payload" /\ data \in PayloadReports /\ minidump = FALSE
       \/ kind = "Minidump" /\ data \in MinidumpReports /\ minidump \in BOOLEAN
       \/ kind = "Unreal" /\ data \in UnrealReports /\ minidump \in BOOLEAN
    /\ NewTask
    /\ project = NoProject
    /\ sources = <<>>
    /\ NoRuns

Next ==
    \/ symbolicate
    \/ do_symbolicate
    \/ query_task
    \/ call_symbolicator
    \/ attachment_expires
    \/ unreal_symbolicate
    \/ unreal_phase
    \/ unreal_phase_done

Spec == Init /\ [][Next]_vars

\* ------------------------------------------- the sources of a symbolicator

\* create_symbolicator reads the project's options
SourcesInit ==
    /\ kind = "Payload" /\ data = BaseData /\ minidump = FALSE
    /\ NewTask
    /\ project \in Projects
    /\ sources = <<>>
    /\ NoRuns

\* opts['sources'] = get_sources_for_project(project)
create_symbolicator ==
    /\ sources = <<>>
    /\ sources' = get_sources_for_project(project)
    /\ UNCHANGED project
    /\ UNCHANGED <<TaskVars, ConcVars>>

SourcesNext == create_symbolicator

SourcesSpec == SourcesInit /\ [][SourcesNext]_vars

\* ------------------------------------------------- the merge of the images

\* the debug id of the image at an index
IdOf(index) == CASE index = 0 -> "id-0"
                 [] index = 1 -> "id-1"
                 [] index = 2 -> "id-2"
                 [] index = 3 -> "id-3"
                 [] OTHER -> "id-n"

\* an entry of debug_meta.images at an index: what the SDK sent, None, or what
\* the service is going to send
RawImageAt(form, index) ==
    CASE form = "raw" -> RawImage
      [] form = "none" -> NoneImage
      [] form = "same" -> [code_file |-> "/usr/lib/libfoo.so", debug_id |-> IdOf(index),
                           arch |-> "unknown"]

MergeReports ==
    {[BaseData EXCEPT !.images = NoImages]}
    \cup {[BaseData EXCEPT !.images =
             [present |-> TRUE,
              list |-> [i \in 1..Len(forms) |-> RawImageAt(forms[i], i - 1)]]] :
            forms \in SeqsUpTo({"raw", "none", "same"}, MaxRawImages)}

\* code_file, debug_status and unwind_status of the service images
CImageForms ==
    {<<"/usr/lib/libfoo.so", "found", "unused">>,
     <<"/usr/lib/libfoo.so", "missing", "missing">>,
     <<"/usr/lib/libfoo.so", "missing", "found">>,
     <<"/usr/lib/libfoo.so", "malformed", "missing">>,
     <<"/app/Frameworks/Third.framework/Third", "missing", "found">>,
     <<"/app/Frameworks/libswiftCore.dylib", "missing", "found">>,
     <<"absent", "missing", "found">>}

CImageAt(form, index) ==
    [CImage(form[1], form[2], form[3]) EXCEPT !.debug_id = IdOf(index)]

MergeImageLists ==
    {[i \in 1..Len(forms) |-> CImageAt(forms[i], i - 1)] :
       forms \in SeqsUpTo(CImageForms, MaxImages)}

MergeInit ==
    /\ kind = "Payload" /\ data \in MergeReports /\ minidump = FALSE
    /\ NewTask
    /\ project = NoProject
    /\ sources = <<>>
    /\ NoRuns

\* self._apply_images(complete_images) on the task's report
merge_images(complete_images, then) ==
    LET r == apply_images([data |-> data, changed |-> changed], complete_images)
    IN  /\ data' = r.data
        /\ changed' = r.changed
        /\ outcome' = IF r.error # "none" THEN r.error ELSE "returned"
        /\ last' = [answer |-> "response",
                    response |-> [BareCompleted EXCEPT !.images = complete_images]]
        /\ pc' = then
        /\ UNCHANGED <<kind, task, tmp, unreal_changed, default_cache, minidump, session,
                       task_id, wait_timeout, current_attempt, retry_after, state,
                       original_state, new_data, attempts, sleeps, polled, built,
                       submitted, order, not_found, calls, exhausted, data0, handle0,
                       phase, minidump_done, minidump_again, persisted_max, history>>
        /\ UNCHANGED <<SourceVars, ConcVars>>

\* the image list of a response is merged into the report
apply_images_once ==
    /\ pc = "idle"
    /\ \E complete_images \in MergeImageLists : merge_images(complete_images, "applied")

\* the same image list is merged a second time
apply_images_again ==
    /\ pc = "applied"
    /\ outcome = "returned"
    /\ merge_images(last.response.images, "applied_again")

MergeNext ==
    \/ apply_images_once
    \/ apply_images_again

MergeSpec == MergeInit /\ [][MergeNext]_vars

\* ------------------------------------------- two runs that share the cache

Runs == {"a", "b"}

Events == {"e1", "e2"}

NativeTasks == {"Payload", "Minidump"}

\* no task handle
NoHandle == [cls |-> "none", event |-> "none", n |-> 0]

\* _cache_key without the event id
task_cache_key_without_event(cls, event) == <<cls, "e1">>

\* _cache_key: the class name, the event id and the project
task_cache_key(cls, event) == <<cls, event>>

\* the report of an event, as a task of the class gets it
ReportOf(cls, event) ==
    IF cls = "Payload" THEN [BaseData EXCEPT !.frames = <<NativeFrame>>] ELSE BaseData

\* the completed response of the service to the request with the given id: it
\* depends on the report the request was made for
CompletedFor(id) ==
    [BareCompleted EXCEPT !.crashed = "true",
                          !.system_info = [SystemInfo EXCEPT !.os_build = id.event],
                          !.stacktraces = <<CStacktrace(<<CFrame(0)>>)>>]

NewRun(cls, event) ==
    [cls |-> cls, event |-> event, pc |-> "idle", task_id |-> NoHandle,
     response |-> [status |-> "none", id |-> NoHandle],
     outcome |-> "none", data |-> ReportOf(cls, event), changed |-> FALSE,
     polled |-> {}, submits |-> 0]

ConcInit ==
    /\ kind = "Payload" /\ data = BaseData /\ minidump = FALSE
    /\ NewTask
    /\ project = NoProject
    /\ sources = <<>>
    /\ runs \in [Runs -> {NewRun(cls, event) : cls \in NativeTasks, event \in Events}]
    /\ handles = [k \in NativeTasks \X Events |-> NoHandle]
    /\ issued = 0

ConcUnchanged == UNCHANGED <<TaskVars, SourceVars>>

\* the scheduler invokes symbolicate: the first time, or again after
\* RetrySymbolication
run_symbolicate(r) ==
    /\ runs[r].pc = "idle"
    /\ runs[r].outcome \in {"none", "RetrySymbolication"}
    /\ runs' = [runs EXCEPT ![r].pc = "get", ![r].outcome = "none"]
    /\ UNCHANGED <<handles, issued>>
    /\ ConcUnchanged

\* task_id = default_cache.get(self._cache_key)
run_cache_get(r) ==
    /\ runs[r].pc = "get"
    /\ LET handle == handles[task_cache_key(runs[r].cls, runs[r].event)]
       IN  runs' = [runs EXCEPT ![r].task_id = handle,
                                ![r].pc = IF handle # NoHandle THEN "query_task"
                                          ELSE "call_symbolicator"]
    /\ UNCHANGED <<handles, issued>>
    /\ ConcUnchanged

\* session.query_task(task_id): the service answers for the request it knows
\* under that id, or with 404
run_query_task(r) ==
    /\ runs[r].pc = "query_task"
    /\ \E answer \in {"pending", "completed", "not_found"} :
         runs' = [runs EXCEPT
                    ![r].polled = @ \cup {runs[r].task_id},
                    ![r].response = IF answer = "not_found" THEN @
                                    ELSE [status |-> answer, id |-> runs[r].task_id],
                    ![r].pc = IF answer = "not_found" THEN "call_symbolicator"
                              ELSE "got_response"]
    /\ UNCHANGED <<handles, issued>>
    /\ ConcUnchanged

\* self.call_symbolicator(session): the service accepts a new request
run_call_symbolicator(r) ==
    /\ runs[r].pc = "call_symbolicator"
    /\ issued < MaxRequests
    /\ issued' = issued + 1
    /\ \E answer \in {"pending", "completed"} :
         runs' = [runs EXCEPT
                    ![r].submits = @ + 1,
                    ![r].response = [status |-> answer,
                                     id |-> [cls |-> runs[r].cls, event |-> runs[r].event,
                                             n |-> issued']],
                    ![r].pc = "got_response"]
    /\ UNCHANGED handles
    /\ ConcUnchanged

\* the rest of _do_symbolicate and of symbolicate: the handle is stored and
\* RetrySymbolication raised, or the handle is deleted and the response applied
run_got_response(r) ==
    /\ runs[r].pc = "got_response"
    /\ LET key == task_cache_key(runs[r].cls, runs[r].event)
           applied == apply_response(runs[r].cls, runs[r].data, runs[r].changed,
                                     CompletedFor(runs[r].response.id))
       IN  IF runs[r].response.status = "pending"
           THEN /\ handles' = [handles EXCEPT ![key] = runs[r].response.id]
                /\ runs' = [runs EXCEPT ![r].outcome = "RetrySymbolication",
                                        ![r].pc = "idle"]
           ELSE /\ handles' = [handles EXCEPT ![key] = NoHandle]
                /\ runs' = [runs EXCEPT ![r].data = applied.data,
                                        ![r].changed = applied.changed,
                                        ![r].outcome = IF applied.error # "none"
                                                       THEN applied.error ELSE "returned",
                                        ![r].pc = "idle"]
    /\ UNCHANGED issued
    /\ ConcUnchanged

ConcNext ==
    \E r \in Runs :
        \/ run_symbolicate(r)
        \/ run_cache_get(r)
        \/ run_query_task(r)
        \/ run_call_symbolicator(r)
        \/ run_got_response(r)

ConcSpec == ConcInit /\ [][ConcNext]_vars

\* ------------------------------------------------------------------ claims

\* a call of _do_symbolicate has been made and has ended
AttemptOver == attempts > 0 /\ pc \notin {"query_task", "call_symbolicator"}

\* NativeSymbolicationTask.symbolicate has been left
RunOver == attempts > 0 /\ pc \in {"idle", "phase_done"}

\* this step is a request whose answer is a response with the given status
Answered(status) ==
    /\ pc \in {"query_task", "call_symbolicator"}
    /\ last'.answer = "response"
    /\ last'.response.status = status

\* C1: in one attempt a persisted handle is polled, and polled before anything
\* else; call_symbolicator is called if and only if no handle is persisted or
\* the poll returned not-found; a not-found poll goes on to call_symbolicator
\* and does not end the attempt.
C1_PollThenSubmit ==
    /\ polled => task_id # "none"
    /\ (task_id # "none" /\ order # <<>>) => order[1] = "poll"
    /\ built => (task_id = "none" \/ (not_found /\ order = <<"poll", "call">>))
    /\ submitted => built
    /\ not_found => (pc = "call_symbolicator" \/ built)
    /\ AttemptOver => /\ polled <=> task_id # "none"
                      /\ built <=> (task_id = "none" \/ not_found)

\* a poll of a persisted handle returned not-found and a new request was sent
C1_Witness == not_found /\ submitted /\ order = <<"poll", "call">>

\* C2: a pending answer to a submit or a poll stores the request id under the
\* task's key and leaves symbolicate with RetrySymbolication carrying the
\* response's retry_after; the attempt counter, the waits slept and the report
\* stay as they were, and the handle is persisted when the run is left.
C2_PendingPersistsAndRetries ==
    [][Answered("pending") =>
         /\ pc' \in {"idle", "phase_done"}
         /\ outcome' = "RetrySymbolication"
         /\ retry_after' = last'.response.retry_after
         /\ default_cache'[cache_key(task)] = last'.response.request_id
         /\ current_attempt' = current_attempt
         /\ sleeps' = sleeps
         /\ wait_timeout' = wait_timeout
         /\ data' = data /\ tmp' = tmp /\ changed' = changed]_vars

\* a run left on a pending answer to a poll, with the new handle persisted
C2_Witness ==
    /\ RunOver /\ outcome = "RetrySymbolication"
    /\ last.answer = "response" /\ last.response.status = "pending"
    /\ polled /\ default_cache[cache_key(task)] = "r2" /\ retry_after = 30

\* C3: when symbolicate is left by a normal return (completion or exhausted
\* retries) or by SymbolicationError, no task handle is persisted under the
\* task's key.
C3_TerminalExitClearsHandle ==
    (RunOver /\ outcome \in {"returned", "SymbolicationError"})
        => default_cache[cache_key(task)] = "none"

\* C4: a run makes at most 3 attempts, and after the 3rd failed attempt it has
\* returned normally.
C4_AtMostThreeAttempts ==
    /\ attempts <= 3
    /\ current_attempt >= 3 => (RunOver /\ outcome = "returned")

\* C5: the waits slept in one run are 0.5, 1.3, 2.58 seconds, each 1.6 times
\* the one before plus 0.5, starting from 0; the wait is not reset between the
\* retries of a run and is 0 when a run starts.
C5_BackoffSequence ==
    /\ Len(sleeps) <= 3
    /\ sleeps = SubSeq(<<500, 1300, 2580>>, 1, Len(sleeps))
    /\ \A n \in 1..Len(sleeps) :
         10 * sleeps[n] = 16 * (IF n = 1 THEN 0 ELSE sleeps[n - 1]) + 5000
    /\ pc \in {"do_symbolicate", "query_task", "call_symbolicator"}
         => wait_timeout = IF sleeps = <<>> THEN 0 ELSE sleeps[Len(sleeps)]
    /\ attempts = 0 => sleeps = <<>>

\* a run that has slept three times
C5_Witness == sleeps = <<500, 1300, 2580>> /\ pc = "do_symbolicate"

\* C6: a submit or poll that fails with HTTP 503 leaves symbolicate at once with
\* RetrySymbolication(retry_after=10); the attempt counter, the waits slept,
\* the persisted handle and the report stay as they were.
C6_Unavailable ==
    [][(pc \in {"query_task", "call_symbolicator"} /\ last'.answer = "http_503") =>
         /\ pc' \in {"idle", "phase_done"}
         /\ outcome' = "RetrySymbolication"
         /\ retry_after' = 10
         /\ current_attempt' = current_attempt
         /\ sleeps' = sleeps
         /\ default_cache' = default_cache
         /\ data' = data /\ tmp' = tmp /\ changed' = changed]_vars

\* a poll of a persisted handle failed with 503 and the run was left
C6_Witness ==
    /\ RunOver /\ outcome = "RetrySymbolication" /\ retry_after = 10
    /\ last.answer = "http_503" /\ polled /\ default_cache[cache_key(task)] # "none"

\* the Unreal task's symbolicate has been left
UnrealOver == kind = "Unreal" /\ pc = "idle" /\ outcome # "none"

\* C7: after a run of the Unreal pipeline in which RetrySymbolication was raised
\* during the ProcessPortableCallstack phase the persisted pipeline state is
\* ProcessPortableCallstack, and after a run that returned it is absent,
\* whatever state the run started from.
C7_PersistedPhase ==
    UnrealOver =>
        /\ (outcome = "RetrySymbolication" /\ phase = PROCESS_PORTABLE_CALLSTACK)
              => default_cache.unreal = PROCESS_PORTABLE_CALLSTACK
        /\ outcome = "returned" => default_cache.unreal = 0

\* a run that resumed at ProcessPortableCallstack, ran the nested Payload task
\* to completion and returned
C7_Witness ==
    /\ UnrealOver /\ outcome = "returned"
    /\ original_state = PROCESS_PORTABLE_CALLSTACK
    /\ task = "Payload" /\ unreal_changed

\* C8: once _apply_minidump has returned in some invocation, the minidump phase
\* is never entered again: every later invocation starts at
\* ProcessPortableCallstack; a RetrySymbolication that leaves the pipeline
\* carries the report as new_data and leaves ProcessPortableCallstack persisted.
C8_MinidumpPhaseOnce ==
    /\ ~minidump_again
    /\ (kind = "Unreal" /\ minidump_done /\ pc = "phase")
          => state = PROCESS_PORTABLE_CALLSTACK
    /\ (UnrealOver /\ outcome = "RetrySymbolication")
          => /\ new_data = [present |-> TRUE, data |-> data]
             /\ minidump_done => default_cache.unreal = PROCESS_PORTABLE_CALLSTACK

\* a later invocation that starts at ProcessPortableCallstack
C8_Witness ==
    /\ kind = "Unreal" /\ minidump_done /\ pc = "phase"
    /\ original_state = PROCESS_PORTABLE_CALLSTACK
    /\ new_data.present = FALSE

\* no frame of the report's stack trace is a handled frame
NoHandledFrame(d) == \A i \in 1..Len(d.frames) : ~handles_frame(d, d.frames[i])

\* C9: a Payload run on a report without a handled frame sends no request and
\* returns with the report as it was and changed = false.
C9_NoHandledFrameNoChange ==
    (kind = "Payload" /\ RunOver /\ NoHandledFrame(data0))
        => /\ calls = 0 /\ ~submitted
           /\ outcome = "returned"
           /\ data = data0
           /\ ~changed

\* the Payload task applied a completed response and returned
PayloadApplied ==
    /\ kind = "Payload" /\ RunOver /\ outcome = "returned" /\ ~exhausted
    /\ last.response.status = "completed"

\* C10 as claimed: the new frame list has the length of the original, each
\* unhandled frame is where and what it was, each handled frame is replaced in
\* place by one merged frame.
C10_LengthAndOrderKept ==
    PayloadApplied =>
        /\ Len(data.frames) = Len(data0.frames)
        /\ \A i \in 1..Len(data0.frames) :
             IF handles_frame(data0, data0.frames[i])
             THEN \E st \in 1..Len(last.response.stacktraces) :
                    \E j \in 1..Len(last.response.stacktraces[st].frames) :
                       data.frames[i] = merge_frame(data0.frames[i],
                                          map_frame(last.response.stacktraces[st].frames[j]))
             ELSE data.frames[i] = data0.frames[i]

\* the merged frames for the handled frame of rank k
MergedFor(raw_frame, complete_frames, k) ==
    LET cs == SelectSeq(complete_frames, LAMBDA f : f.original_index = k)
    IN  [j \in 1..Len(cs) |-> merge_frame(raw_frame, map_frame(cs[j]))]

\* the frame list in which each handled frame gives way to its merged frames
RECURSIVE Expand(_, _, _, _)
Expand(d, raw_frames, complete_frames, k) ==
    IF raw_frames = <<>> THEN <<>>
    ELSE IF handles_frame(d, Head(raw_frames))
    THEN MergedFor(Head(raw_frames), complete_frames, k)
            \o Expand(d, Tail(raw_frames), complete_frames, k + 1)
    ELSE <<Head(raw_frames)>> \o Expand(d, Tail(raw_frames), complete_frames, k)

\* the number of handled frames among the first n frames
RECURSIVE Rank(_, _, _)
Rank(d, raw_frames, n) ==
    IF n = 0 THEN 0
    ELSE Rank(d, raw_frames, n - 1)
         + (IF handles_frame(d, raw_frames[n]) THEN 1 ELSE 0)

\* every handled frame has at least (exactly) one service frame
Covered(d, raw_frames, complete_frames, exactly) ==
    \A k \in 0..(Rank(d, raw_frames, Len(raw_frames)) - 1) :
        LET n == Len(SelectSeq(complete_frames, LAMBDA f : f.original_index = k))
        IN  IF exactly THEN n = 1 ELSE n >= 1

\* C10 as amended: when the response has a stack trace for the report's stack
\* trace and a service frame for every handled frame, the new frame list is the
\* original one with each handled frame replaced, at its place, by the merged
\* frames of all service frames of its original_index, in service order, and
\* every unhandled frame kept; its length is the original one when there is
\* exactly one service frame per handled frame.  Without a stack trace in the
\* response, or when a handled frame has no service frame (KeyError), the frame
\* list stays as it was.
C10_FramesReplacedInOrder ==
    (kind = "Payload" /\ RunOver /\ ~exhausted /\ last.response.status = "completed"
       /\ last.answer \in {"response", "local"})
    => LET raw == data0.frames
           sts == last.response.stacktraces
       IN  IF sts = <<>> THEN outcome = "returned" /\ data.frames = raw
           ELSE IF Covered(data0, raw, sts[1].frames, FALSE)
           THEN /\ outcome = "returned"
                /\ data.frames = Expand(data0, raw, sts[1].frames, 0)
                /\ Covered(data0, raw, sts[1].frames, TRUE)
                     => /\ Len(data.frames) = Len(raw)
                        /\ \A i \in 1..Len(raw) :
                             ~handles_frame(data0, raw[i]) => data.frames[i] = raw[i]
           ELSE outcome = "KeyError" /\ data.frames = raw

\* a handled frame that follows an unhandled one was replaced by two frames
C10_Witness ==
    /\ PayloadApplied
    /\ data0.frames = <<DoneFrame, NativeFrame>>
    /\ Len(data.frames) = 3
    /\ data.frames[1] = DoneFrame

\* C11: a run of the Minidump task for a report whose minidump attachment is
\* missing is left only by SymbolicationError, with the report as it was:
\* never by a normal return and never after applying a response, whatever
\* handle is persisted and whatever a poll answers.
C11_MissingMinidumpAlwaysFatal ==
    [][(kind = "Minidump" /\ ~minidump
          /\ pc \in {"query_task", "call_symbolicator"} /\ pc' = "idle")
       => (outcome' = "SymbolicationError" /\ data' = data)]_vars

\* two entries of the list share an id
HasDuplicateId(ids) == \E i, j \in 1..Len(ids) : i < j /\ ids[i] = ids[j]

\* an id of the list starts with the reserved prefix "sentry:"
UsesReservedPrefix(ids) ==
    \E i \in 1..Len(ids) : startswith(ids[i], <<"s", "e", "n", "t", "r", "y", ":">>)

\* get_sources_for_project has returned for a configuration with a duplicate
\* or a reserved id
InvalidIdsParsed ==
    /\ sources # <<>>
    /\ project.symbol_sources.form = "list"
    /\ \/ HasDuplicateId(project.symbol_sources.ids)
       \/ UsesReservedPrefix(project.symbol_sources.ids)

\* C16 as claimed: a configuration with a duplicate or a reserved id makes
\* parse_sources raise InvalidSourcesError, and get_sources_for_project returns
\* the list that holds the internal project source and nothing else.
C16_FallbackInternalOnly ==
    InvalidIdsParsed =>
        /\ parse_sources(project.symbol_sources).error
        /\ sources = <<get_internal_source>>

\* C16 as amended: a configuration with a duplicate or a reserved id makes
\* parse_sources raise InvalidSourcesError, and get_sources_for_project returns
\* the internal project source first, no custom source, and after it the
\* built-in sources the project has enabled.
C16_FallbackNoCustomSource ==
    InvalidIdsParsed =>
        /\ parse_sources(project.symbol_sources).error
        /\ sources[1] = get_internal_source
        /\ \A i \in 1..Len(sources) : sources[i].type # "s3"
        /\ IF "microsoft" \in project.builtin_symbol_sources.keys
           THEN sources = <<get_internal_source, BUILTIN_SOURCES.microsoft>>
           ELSE sources = <<get_internal_source>>

\* two sources share the id "custom" and the project has enabled a built-in
\* source
C16_Witness ==
    /\ sources # <<>>
    /\ project.symbol_sources = [form |-> "list", ids |-> <<IdCustom, IdCustom>>]
    /\ "microsoft" \in project.builtin_symbol_sources.keys
    /\ Len(sources) = 2

\* C12: merging the image list of the same response a second time leaves
\* debug_meta.images as the first merge left it: the same length and the same
\* descriptor at each index.
C12_ImageMergeIdempotent ==
    pc = "applied_again" =>
        LET once == apply_images([data |-> data0, changed |-> FALSE],
                                 last.response.images).data.images
        IN  /\ data.images.present /\ once.present
            /\ Len(data.images.list) = Len(once.list)
            /\ \A i \in 1..Len(once.list) : data.images.list[i] = once.list[i]

\* a list with a None entry and a missing entry was merged twice
C12_Witness ==
    /\ pc = "applied_again"
    /\ Len(data0.images.list) = 1 /\ data0.images.list[1] = NoneImage
    /\ Len(last.response.images) = 2
    /\ Len(data.images.list) = 2

\* every field that is not a status field of every service image is already
\* the value of the report's image at the same index
FieldsAlreadyEqual(d, complete_images) ==
    /\ complete_images # <<>>
    /\ d.images.present
    /\ Len(complete_images) <= Len(d.images.list)
    /\ \A i \in 1..Len(complete_images) :
         /\ d.images.list[i] # NoneImage
         /\ \A k \in ImageKeys : d.images.list[i][k] = complete_images[i][k]

\* C13: a merge of service images whose fields other than the status fields
\* all equal the report's values at their index, and whose statuses add no
\* error record, leaves changed as it was before the merge.
C13_EqualFieldsLeaveChanged ==
    [][(/\ pc \in {"idle", "applied"}
        /\ pc' \in {"applied", "applied_again"}
        /\ FieldsAlreadyEqual(data, last'.response.images)
        /\ data'.errors = data.errors)
       => changed' = changed]_vars

\* the service's code_file for the image at position i, else the report's
PathOf(i) ==
    LET c == last.response.images[i]
        got == get_path_image(data0.images.list, i - 1)
    IN  IF ~IsNone(c.code_file) THEN c.code_file ELSE got.value.code_file

\* the statuses the service gave the image at position i
StatusesOf(i) ==
    {last.response.images[i].debug_status, last.response.images[i].unwind_status}
        \ {"absent"}

\* the error records added for the image at position i
ErrorsOf(i) == SelectSeq(data.errors, LAMBDA e : e.image_uuid = IdOf(i - 1))

\* those that say debug information is missing
MissingErrorsOf(i) ==
    SelectSeq(ErrorsOf(i), LAMBDA e : e.ty \in {"native_missing_dsym",
                                                "native_missing_optionally_bundled_dsym"})

\* C14 as claimed: for an image with status missing, no record when it has no
\* code_file, a MissingOptionalDsym record when the code_file is a known
\* third-party binary or an optional package, a MissingDsym record otherwise.
C14_MissingClassification ==
    pc = "applied" =>
        \A i \in 1..Len(last.response.images) :
            "missing" \in StatusesOf(i) =>
                IF IsNone(PathOf(i)) THEN MissingErrorsOf(i) = <<>>
                ELSE /\ Len(MissingErrorsOf(i)) = 1
                     /\ MissingErrorsOf(i)[1].ty =
                          IF is_known_third_party(PathOf(i)) \/ is_optional_package(PathOf(i))
                          THEN "native_missing_optionally_bundled_dsym"
                          ELSE "native_missing_dsym"

\* C14 as amended: for an image with status missing, no record when it has no
\* code_file or the code_file is a known third-party binary, a
\* MissingOptionalDsym record when the code_file is an optional package, a
\* MissingDsym record otherwise.
C14_ThirdPartySuppressed ==
    pc = "applied" =>
        \A i \in 1..Len(last.response.images) :
            "missing" \in StatusesOf(i) =>
                IF IsNone(PathOf(i)) \/ is_known_third_party(PathOf(i))
                THEN MissingErrorsOf(i) = <<>>
                ELSE /\ Len(MissingErrorsOf(i)) = 1
                     /\ MissingErrorsOf(i)[1].ty =
                          IF is_optional_package(PathOf(i))
                          THEN "native_missing_optionally_bundled_dsym"
                          ELSE "native_missing_dsym"

\* one response with a missing third-party binary, a missing optional package
\* and a missing image without code_file
C14_Witness ==
    /\ pc = "applied"
    /\ Len(last.response.images) = 3
    /\ is_known_third_party(PathOf(1)) /\ "missing" \in StatusesOf(1)
    /\ is_optional_package(PathOf(2)) /\ "missing" \in StatusesOf(2)
    /\ IsNone(PathOf(3)) /\ "missing" \in StatusesOf(3)
    /\ Len(data.errors) = 1

\* the code_file of the image at position i is neither missing nor a known
\* third-party binary nor an optional package
NormalPath(i) ==
    /\ ~IsNone(PathOf(i))
    /\ ~is_known_third_party(PathOf(i))
    /\ ~is_optional_package(PathOf(i))

\* C15: one merge adds, for an image with a normal code_file, one record per
\* distinct status other than found and unused: exactly one MissingDsym record
\* when debug_status or unwind_status (or both) is missing, with the code_file
\* as image_path and no None-valued field; an image whose statuses are only
\* found and unused adds no record.
C15_OneErrorPerImageAndStatus ==
    pc = "applied" =>
        \A i \in 1..Len(last.response.images) :
            /\ NormalPath(i) =>
                 /\ Len(ErrorsOf(i)) = Cardinality(StatusesOf(i) \ {"found", "unused"})
                 /\ Len(SelectSeq(ErrorsOf(i), LAMBDA e : e.ty = "native_missing_dsym"))
                      = IF "missing" \in StatusesOf(i) THEN 1 ELSE 0
                 /\ \A n \in 1..Len(ErrorsOf(i)) :
                      /\ ErrorsOf(i)[n].image_path = PathOf(i)
                      /\ \A f \in DOMAIN ErrorsOf(i)[n] : ErrorsOf(i)[n][f] # "null"
            /\ StatusesOf(i) \subseteq {"found", "unused"} => ErrorsOf(i) = <<>>

\* the image at index 2 has debug_status and unwind_status missing and a
\* normal code_file, and the merge added one record for it
C15_Witness ==
    /\ pc = "applied"
    /\ Len(last.response.images) = 3
    /\ last.response.images[3].debug_status = "missing"
    /\ last.response.images[3].unwind_status = "missing"
    /\ PathOf(3) = "/usr/lib/libfoo.so"
    /\ Len(ErrorsOf(3)) = 1
    /\ ErrorsOf(3)[1].ty = "native_missing_dsym"
    /\ ErrorsOf(3)[1].image_arch = "absent"

\* C18: the merge keeps the images aligned: the assertion never fails, the
\* list grows only to the length of the service's list, the entries it had are
\* where they were, and the data merged for image i is in the entry at index i.
C18_ImagesAligned ==
    pc = "applied" =>
        LET before == data0.images.list
            after == data.images.list
            complete_images == last.response.images
        IN  /\ outcome # "AssertionError"
            /\ Len(after) = IF Len(before) > Len(complete_images)
                            THEN Len(before) ELSE Len(complete_images)
            /\ \A i \in 1..Len(before) :
                 i > Len(complete_images) => after[i] = before[i]
            /\ \A i \in 1..Len(complete_images) :
                 after[i] = merge_image(get_path_image(before, i - 1).value,
                                        complete_images[i]).image

\* C17: every request of a run is made while the run's session is open, and
\* whenever symbolicate is left, by a return, by RetrySymbolication, by
\* SymbolicationError or after the retries are exhausted, the session is closed;
\* no session is open between two runs.
C17_SessionReleased ==
    [][/\ calls' = calls + 1 => session
       /\ pc' \in {"idle", "phase", "phase_done"} => ~session'
       /\ pc' \in {"do_symbolicate", "query_task", "call_symbolicator"} => session']_vars

\* a run that made a request was left by SymbolicationError, its session closed
C17_Witness ==
    /\ RunOver /\ outcome = "SymbolicationError"
    /\ calls > 0 /\ last.answer = "response"
    /\ ~session

\* C19: the persisted pipeline state is absent or a phase not earlier than any
\* phase persisted before; it is deleted only when the run's state has reached
\* None, and a run that ends by RetrySymbolication or SymbolicationError
\* neither deletes it nor moves it backwards.
C19_StateMovesForward ==
    [][/\ default_cache'.unreal = 0 \/ default_cache'.unreal >= persisted_max
       /\ (default_cache.unreal # 0 /\ default_cache'.unreal = 0)
             => (state' = 0 /\ outcome' = "returned")
       /\ (kind = "Unreal" /\ pc # "idle" /\ pc' = "idle"
             /\ outcome' \in {"RetrySymbolication", "SymbolicationError"})
             => default_cache'.unreal >= default_cache.unreal]_vars

\* a run that resumed at ProcessPortableCallstack ended by RetrySymbolication
\* and the state is still persisted
C19_Witness ==
    /\ UnrealOver /\ outcome = "RetrySymbolication"
    /\ original_state = PROCESS_PORTABLE_CALLSTACK
    /\ default_cache.unreal = PROCESS_PORTABLE_CALLSTACK
    /\ persisted_max = PROCESS_PORTABLE_CALLSTACK

\* C20: when two runs interleave their steps on the cache, no run ends by an
\* error, no run polls a handle that was issued for another report or another
\* task class, and a run that returned holds the report that one application
\* of the completed response to its report gives; runs for the same report may
\* submit more than once.
C20_InterleavingOnlyResubmits ==
    \A r \in Runs :
        /\ runs[r].outcome \in {"none", "RetrySymbolication", "returned"}
        /\ \A id \in runs[r].polled :
             id.cls = runs[r].cls /\ id.event = runs[r].event
        /\ runs[r].outcome = "returned" =>
             /\ runs[r].data =
                  apply_response(runs[r].cls, ReportOf(runs[r].cls, runs[r].event), FALSE,
                                 CompletedFor([cls |-> runs[r].cls,
                                               event |-> runs[r].event, n |-> 1])).data
             /\ handles[task_cache_key(runs[r].cls, runs[r].event)].cls
                  \in {"none", runs[r].cls}

\* two runs for the same report both returned, one of them after it polled the
\* handle the other had stored, and the report was submitted twice
C20_Witness ==
    /\ runs["a"].cls = runs["b"].cls /\ runs["a"].event = runs["b"].event
    /\ runs["a"].outcome = "returned" /\ runs["b"].outcome = "returned"
    /\ runs["a"].submits + runs["b"].submits = 2
    /\ \E id \in runs["b"].polled : id.n = 1
    /\ runs["a"].submits = 1

\* the fields of a frame the service may leave out
OptionalFrameKeys == {"package", "symbol", "symbol_addr", "function", "filename",
                      "abs_path", "lineno"}

\* C21: the frame map_frame makes of a service frame has none of package,
\* symbol, symbol_addr, function, filename, abs_path, lineno with the value
\* None, and after the merge no frame of the report holds None in a field:
\* a field the original frame had is never overwritten with an empty value.
C21_MapFrameOmitsNone ==
    (PayloadApplied /\ last.answer = "response") =>
        /\ \A st \in 1..Len(last.response.stacktraces) :
             \A j \in 1..Len(last.response.stacktraces[st].frames) :
                \A k \in OptionalFrameKeys :
                   map_frame(last.response.stacktraces[st].frames[j])[k] # "null"
        /\ \A n \in 1..Len(data.frames) :
             \A k \in OptionalFrameKeys : data.frames[n][k] # "null"

\* C22: a submit or poll that fails without an HTTP response counts as a
\* transient failure: the attempt counter goes up by one and the run either
\* sleeps and tries again or, with the attempts used up, returns; nothing else
\* leaves symbolicate.
C22_NoResponseIsTransient ==
    [][(pc \in {"query_task", "call_symbolicator"} /\ last'.answer = "no_response") =>
         /\ current_attempt' = current_attempt + 1
         /\ \/ pc' = "do_symbolicate" /\ outcome' = "none"
            \/ exhausted' /\ outcome' = "returned"]_vars

\* C23: after a run, changed = false means the report is the report the run
\* was given, for the Payload and Minidump tasks and for the Unreal task.
C23_ChangedFlagSound ==
    /\ (kind \in {"Payload", "Minidump"} /\ RunOver /\ ~changed) => data = data0
    /\ (UnrealOver /\ ~unreal_changed) => data = data0

\* C25: the pipeline goes from ProcessMinidump to ProcessPortableCallstack only
\* when the nested Minidump task applied a completed response; after a nested
\* run that used up its retries the state stays ProcessMinidump.
C25_AdvanceOnlyOnCompleted ==
    [][(kind = "Unreal" /\ pc = "phase_done" /\ state = PROCESS_MINIDUMP) =>
         /\ exhausted => state' = PROCESS_MINIDUMP
         /\ state' = PROCESS_PORTABLE_CALLSTACK =>
              /\ last.answer = "response"
              /\ last.response.status = "completed"]_vars

====
